---- MODULE Spec2Model ----
(***************************************************************************)
(* Model of src/main.rs: a tao window hosting an MTKView whose delegate    *)
(* (MtkViewDelegate) bootstraps a Metal pipeline in init() and encodes one *)
(* triangle per frame in drawInMTKView().                                  *)
(*                                                                         *)
(* Object handles are natural numbers; 0 is None / an empty OnceCell.      *)
(* The Metal, AppKit and tao calls are the environment: whether a call     *)
(* returns Some/Ok or None/Err is chosen with \E at the call.              *)
(***************************************************************************)
EXTENDS Integers, Sequences, FiniteSets, TLC

\* ---------------------------------------------------------------- bounds
MaxFrames == 2      \* draw callbacks delivered in one run
MaxExtent == 2      \* content width and height range over 1..MaxExtent
MaxInits == 2       \* invocations of init() a caller may make (main makes one)

\* ----------------------------------------------------------- geometry
Rect(x, y, w, h) == [x |-> x, y |-> y, w |-> w, h |-> h]

ZeroRect == Rect(0, 0, 0, 0)

\* screen positions at which the window can be built
Origins == {[x |-> 0, y |-> 0], [x |-> 1, y |-> 2]}

\* the origin NSWindow.center() gives the window on this screen
Centered == [x |-> 3, y |-> 5]

Extents == 1..MaxExtent

\* the sizes a Resized(size) event can carry
EventSizes == [w : Extents, h : Extents]

\* NSWindow.frame() and NSWindow.contentView().frame(): the window frame is in
\* screen coordinates and includes the title bar (one unit high) of the
\* decorated window WindowBuilder builds; the content view's frame has its
\* origin at (0,0).
WindowStates ==
    { [frame |-> Rect(o.x, o.y, w, h + 1), content |-> Rect(0, 0, w, h)] :
        <<o, w, h>> \in Origins \X Extents \X Extents }

\* MTLPixelFormat values an MTKView can report (BGRA8Unorm = 80, RGBA8Unorm = 70)
PixelFormats == {70, 80}

\* ------------------------------------------------------- program data
\* struct AppState: four OnceCells
EmptyIvars == [command_queue |-> 0, pipeline_state |-> 0, window |-> 0, mtk_view |-> 0]

\* local variables of init()
NoInitLocals ==
    [device |-> 0, command_queue |-> 0, mtk_view |-> 0, library |-> 0,
     vertex_function |-> 0, fragment_function |-> 0, pipeline_state |-> 0,
     descriptor |-> [pixelFormat |-> 0, vertexFunction |-> 0, fragmentFunction |-> 0]]

\* local variables of drawInMTKView()
NoDrawLocals ==
    [mtk_view |-> 0, command_queue |-> 0, pipeline_state |-> 0, current_drawable |-> 0,
     command_buffer |-> 0, pass_descriptor |-> 0, encoder |-> 0]

\* no library compiled yet
NoLibrary == [compiled |-> FALSE, vertex_main |-> FALSE, fragment_main |-> FALSE]

\* an event as the handler receives it; only Resized carries a size
Event(name, size) == [event |-> name, size |-> size]

NoSize == [w |-> 0, h |-> 0]

NoEvent == Event("None", NoSize)

\* the MTKView before initWithFrame_device
NoSurface ==
    [created |-> FALSE, frame |-> ZeroRect, device |-> 0, pixelFormat |-> 0,
     delegate |-> FALSE, attached |-> FALSE]

\* size_of::<VertexInput>(): two MTLPackedFloat3 of three f32 each
VertexInputSize == 24

\* the triangle of drawInMTKView; positions in thousandths (sqrt(3)/4 = 0.433)
vertex_input_data ==
    << [position |-> <<-433, -250, 0>>, color |-> <<1, 0, 0>>],
       [position |-> << 433, -250, 0>>, color |-> <<0, 1, 0>>],
       [position |-> <<   0,  500, 0>>, color |-> <<0, 0, 1>>] >>

\* MTLPrimitiveType::Triangle
PrimitiveTriangle == 3

\* one backend call of a frame: method, receiver, arguments, returned handle
Call(op, recv, args, res) == [op |-> op, recv |-> recv, args |-> args, res |-> res]

VARIABLES
    pc,           \* position of the main thread
    panicMsg,     \* message of the panic that ended the run, "" if none
    ivars,        \* AppState of the delegate
    il,           \* locals of init()
    dl,           \* locals of drawInMTKView()
    surface,      \* the MTKView
    win,          \* the NSWindow: frame, content-view frame, title, centered
    inits,        \* number of invocations of init()
    created,      \* number of devices, queues, libraries, views created
    library,      \* the compiled MTLLibrary: which entry points it has
    bootFailure,  \* the backend call of init that returned None/Err, "" if none
    pipelines,    \* the pipeline states created, in order: their descriptors
    frameNo,      \* number of drawInMTKView invocations so far
    calls,        \* backend calls of the current (or last) frame, in order
    hist,         \* one summary per returned frame
    controlFlow,  \* *control_flow of the event loop
    handled,      \* the event whose handler returned in the last step
    entered       \* event_loop.run has been called

vars == <<pc, panicMsg, ivars, il, dl, surface, win, inits, created, library,
          bootFailure, pipelines, frameNo, calls, hist, controlFlow, handled, entered>>

\* what init and the backend have made so far
backendVars == <<inits, created, library, bootFailure, pipelines>>

frameVars == <<dl, frameNo, calls, hist>>

loopVars == <<controlFlow, handled, entered>>

\* ------------------------------------------------------------ helpers
\* a Rust panic: in main before the loop, or in a callback, it ends the process
Panic(msg) ==
    /\ pc' = "panicked"
    /\ panicMsg' = msg

\* OnceCell::set(v): Ok if the cell is empty, Err (cell unchanged) otherwise
CellSet(cell, v) == IF cell = 0 THEN v ELSE cell

CountOp(log, op) == Cardinality({i \in 1..Len(log) : log[i].op = op})

\* the four fallible acquisitions of a frame
AcquireOps ==
    {"currentDrawable", "commandBuffer", "currentRenderPassDescriptor",
     "renderCommandEncoderWithDescriptor"}

\* all four acquisitions of the frame returned Some
Acquired(log) ==
    \A op \in AcquireOps : \E i \in 1..Len(log) : log[i].op = op /\ log[i].res # 0

\* what a returned frame leaves in the history
FrameSummary(log) == [acquired |-> Acquired(log), commits |-> CountOp(log, "commit")]

\* ---------------------------------------------------------------- Init
\* main() up to and including MtkViewDelegate::new: the window exists and
\* only the window cell is set.
Init ==
    /\ pc = "init_device"
    /\ panicMsg = ""
    /\ ivars = [EmptyIvars EXCEPT !.window = 1]
    /\ il = NoInitLocals
    /\ dl = NoDrawLocals
    /\ surface = NoSurface
    /\ \E w \in WindowStates :
           win = [frame |-> w.frame, content |-> w.content,
                  title |-> "A fantastic window!", centered |-> FALSE]
    /\ inits = 0
    /\ created = [device |-> 0, queue |-> 0, library |-> 0, view |-> 0]
    /\ library = NoLibrary
    /\ bootFailure = ""
    /\ pipelines = << >>
    /\ frameNo = 0
    /\ calls = << >>
    /\ hist = << >>
    /\ controlFlow = "Poll"
    /\ handled = NoEvent
    /\ entered = FALSE

\* ------------------------------------------------------------- init()
\* init() is entered; MTLCreateSystemDefaultDevice + expect
InitDevice ==
    /\ pc = "init_device"
    /\ inits' = inits + 1
    /\ \E ok \in BOOLEAN :
        IF ok
        THEN /\ pc' = "init_queue"
             /\ il' = [il EXCEPT !.device = created.device + 1]
             /\ created' = [created EXCEPT !.device = @ + 1]
             /\ UNCHANGED <<panicMsg, bootFailure>>
        ELSE /\ bootFailure' = "device"
             /\ Panic("Failed to get default system device.")
             /\ UNCHANGED <<il, created>>
    /\ UNCHANGED <<ivars, surface, win, library, pipelines, frameVars, loopVars>>

\* a variant that goes on without a queue
InitQueue_degraded ==
    /\ pc = "init_queue"
    /\ \E ok \in BOOLEAN :
        IF ok
        THEN /\ pc' = "init_view"
             /\ il' = [il EXCEPT !.command_queue = created.queue + 1]
             /\ created' = [created EXCEPT !.queue = @ + 1]
             /\ UNCHANGED <<panicMsg, bootFailure>>
        ELSE /\ bootFailure' = "queue"
             /\ pc' = "init_view"
             /\ UNCHANGED <<il, created, panicMsg>>
    /\ UNCHANGED <<inits, ivars, surface, win, library, pipelines, frameVars, loopVars>>

\* device.newCommandQueue() + expect
InitQueue ==
    /\ pc = "init_queue"
    /\ \E ok \in BOOLEAN :
        IF ok
        THEN /\ pc' = "init_view"
             /\ il' = [il EXCEPT !.command_queue = created.queue + 1]
             /\ created' = [created EXCEPT !.queue = @ + 1]
             /\ UNCHANGED <<panicMsg, bootFailure>>
        ELSE /\ bootFailure' = "queue"
             /\ Panic("Failed to create a command queue.")
             /\ UNCHANGED <<il, created>>
    /\ UNCHANGED <<inits, ivars, surface, win, library, pipelines, frameVars, loopVars>>

\* a variant whose descriptor gets a hard-coded color format
InitView_defaultFormat ==
    /\ pc = "init_view"
    /\ \E pf \in PixelFormats :
        /\ surface' = [created |-> TRUE, frame |-> win.frame, device |-> il.device,
                       pixelFormat |-> pf, delegate |-> FALSE, attached |-> FALSE]
        /\ il' = [il EXCEPT !.mtk_view = created.view + 1,
                            !.descriptor.pixelFormat = 80]
    /\ created' = [created EXCEPT !.view = @ + 1]
    /\ pc' = "init_library"
    /\ UNCHANGED <<panicMsg, inits, ivars, win, library, bootFailure, pipelines,
                   frameVars, loopVars>>

\* MTKView::initWithFrame_device(window.frame(), device), then the pipeline
\* descriptor with the view's colorPixelFormat on color attachment 0
InitView ==
    /\ pc = "init_view"
    /\ \E pf \in PixelFormats :
        /\ surface' = [created |-> TRUE, frame |-> win.frame, device |-> il.device,
                       pixelFormat |-> pf, delegate |-> FALSE, attached |-> FALSE]
        /\ il' = [il EXCEPT !.mtk_view = created.view + 1,
                            !.descriptor.pixelFormat = pf]
    /\ created' = [created EXCEPT !.view = @ + 1]
    /\ pc' = "init_library"
    /\ UNCHANGED <<panicMsg, inits, ivars, win, library, bootFailure, pipelines,
                   frameVars, loopVars>>

\* library.newFunctionWithName(name): Some(function) if the library has it
FunctionNamed(present) == IF present THEN 1 ELSE 0

\* newLibraryWithSource + expect, then both newFunctionWithName lookups, whose
\* Option results go to the descriptor unchecked (as_deref)
InitLibrary ==
    /\ pc = "init_library"
    /\ \E ok \in BOOLEAN, hasVertex \in BOOLEAN, hasFragment \in BOOLEAN :
        IF ok
        THEN /\ pc' = "init_pipeline"
             /\ il' = [il EXCEPT
                   !.library = created.library + 1,
                   !.vertex_function = FunctionNamed(hasVertex),
                   !.fragment_function = FunctionNamed(hasFragment),
                   !.descriptor.vertexFunction = FunctionNamed(hasVertex),
                   !.descriptor.fragmentFunction = FunctionNamed(hasFragment)]
             /\ created' = [created EXCEPT !.library = @ + 1]
             /\ library' = [compiled |-> TRUE, vertex_main |-> hasVertex,
                            fragment_main |-> hasFragment]
             /\ UNCHANGED <<panicMsg, bootFailure>>
        ELSE /\ bootFailure' = "library"
             /\ Panic("Failed to create a library.")
             /\ UNCHANGED <<il, created, library>>
    /\ UNCHANGED <<inits, ivars, surface, win, pipelines, frameVars, loopVars>>

\* device.newRenderPipelineStateWithDescriptor_error + expect
InitPipeline ==
    /\ pc = "init_pipeline"
    /\ \E ok \in BOOLEAN :
        IF ok
        THEN /\ pc' = "init_delegate"
             /\ pipelines' = Append(pipelines, il.descriptor)
             /\ il' = [il EXCEPT !.pipeline_state = Len(pipelines) + 1]
             /\ UNCHANGED <<panicMsg, bootFailure>>
        ELSE /\ bootFailure' = "pipeline"
             /\ Panic("Failed to create a pipeline state.")
             /\ UNCHANGED <<il, pipelines>>
    /\ UNCHANGED <<inits, ivars, surface, win, created, library, frameVars, loopVars>>

\* mtk_view.setDelegate(self)
InitDelegate ==
    /\ pc = "init_delegate"
    /\ surface' = [surface EXCEPT !.delegate = TRUE]
    /\ pc' = "init_window"
    /\ UNCHANGED <<panicMsg, ivars, il, win, backendVars, frameVars, loopVars>>

\* a variant that attaches the view and leaves the frame it was built with
InitWindow_noSetFrame ==
    /\ pc = "init_window"
    /\ surface' = [surface EXCEPT !.attached = TRUE]
    /\ win' = [win EXCEPT !.frame.x = Centered.x, !.frame.y = Centered.y,
                           !.centered = TRUE, !.title = "Metal Example"]
    /\ pc' = "init_store"
    /\ UNCHANGED <<panicMsg, ivars, il, backendVars, frameVars, loopVars>>

\* addSubview, setFrame(view.frame()), window.center(), window.setTitle
InitWindow ==
    /\ pc = "init_window"
    /\ surface' = [surface EXCEPT !.attached = TRUE, !.frame = win.content]
    /\ win' = [win EXCEPT !.frame.x = Centered.x, !.frame.y = Centered.y,
                           !.centered = TRUE, !.title = "Metal Example"]
    /\ pc' = "init_store"
    /\ UNCHANGED <<panicMsg, ivars, il, backendVars, frameVars, loopVars>>

\* a variant whose cells are plain fields: a later init overwrites them
InitStore_overwrite ==
    /\ pc = "init_store"
    /\ pc' = "run"
    /\ ivars' = [ivars EXCEPT !.command_queue = il.command_queue,
                              !.pipeline_state = il.pipeline_state,
                              !.mtk_view = il.mtk_view]
    /\ il' = NoInitLocals
    /\ UNCHANGED <<panicMsg, surface, win, backendVars, frameVars, loopVars>>

\* a variant that stores the queue and the pipeline state but not the view
InitStore_forgetsView ==
    /\ pc = "init_store"
    /\ pc' = "run"
    /\ ivars' = [ivars EXCEPT
           !.command_queue = CellSet(ivars.command_queue, il.command_queue),
           !.pipeline_state = CellSet(ivars.pipeline_state, il.pipeline_state)]
    /\ il' = NoInitLocals
    /\ UNCHANGED <<panicMsg, surface, win, backendVars, frameVars, loopVars>>

\* the three OnceCell::set(..).expect(..) of init; init then returns and its
\* locals are dropped
InitStore ==
    /\ pc = "init_store"
    /\ IF ivars.command_queue # 0
       THEN Panic("Failed to set command queue.") /\ UNCHANGED ivars
       ELSE IF ivars.pipeline_state # 0
       THEN /\ Panic("Failed to set pipeline state.")
            /\ ivars' = [ivars EXCEPT !.command_queue = il.command_queue]
       ELSE IF ivars.mtk_view # 0
       THEN /\ Panic("Failed to set mtk_view.")
            /\ ivars' = [ivars EXCEPT !.command_queue = il.command_queue,
                                      !.pipeline_state = il.pipeline_state]
       ELSE /\ pc' = "run"
            /\ ivars' = [ivars EXCEPT
                   !.command_queue = CellSet(ivars.command_queue, il.command_queue),
                   !.pipeline_state = CellSet(ivars.pipeline_state, il.pipeline_state),
                   !.mtk_view = CellSet(ivars.mtk_view, il.mtk_view)]
            /\ UNCHANGED panicMsg
    /\ il' = NoInitLocals
    /\ UNCHANGED <<surface, win, backendVars, frameVars, loopVars>>

\* event_loop.run(..)
EnterLoop ==
    /\ pc = "run"
    /\ pc' = "loop"
    /\ entered' = TRUE
    /\ UNCHANGED <<panicMsg, ivars, il, surface, win, backendVars,
                   frameVars, controlFlow, handled>>

\* ---------------------------------------------------- drawInMTKView()
staticVars == <<ivars, il, surface, win, backendVars, frameNo, loopVars>>

\* drawInMTKView returns: its locals are dropped, the frame is over
DrawReturn(log) ==
    /\ pc' = "loop"
    /\ calls' = log
    /\ hist' = Append(hist, FrameSummary(log))
    /\ dl' = NoDrawLocals
    /\ UNCHANGED panicMsg

\* a variant that submits what was acquired so far before returning
Unavailable_commitPartial(log) ==
    IF dl.command_buffer # 0
    THEN DrawReturn(Append(log, Call("commit", dl.command_buffer, << >>, 0)))
    ELSE DrawReturn(log)

\* a variant that asks once more before giving up
Unavailable_retryOnce(log) ==
    IF Len(calls) > 0 /\ calls[Len(calls)].res = 0 /\ calls[Len(calls)].op \in AcquireOps
    THEN DrawReturn(log)
    ELSE /\ calls' = log
         /\ UNCHANGED <<pc, dl, hist, panicMsg>>

\* the `else { return; }` arm of the four let-else acquisitions
Unavailable(log) == DrawReturn(log)

\* the Some(..) arm: bind the local and go on to the next statement
Bound(local, res, log, next) ==
    /\ pc' = next
    /\ dl' = [dl EXCEPT ![local] = res]
    /\ calls' = log
    /\ UNCHANGED <<hist, panicMsg>>

\* a statement after the acquisitions: one call, then the next statement
Step(call, next) ==
    /\ pc' = next
    /\ calls' = Append(calls, call)
    /\ UNCHANGED <<dl, hist, panicMsg>>

\* drawInMTKView is entered: it starts by unwrapping the command_queue and
\* pipeline_state cells
CallDraw ==
    /\ frameNo' = frameNo + 1
    /\ handled' = NoEvent
    /\ IF ivars.command_queue = 0 \/ ivars.pipeline_state = 0
       THEN /\ Panic("called Option::unwrap() on a None value")
            /\ UNCHANGED <<dl, calls>>
       ELSE /\ pc' = "draw_drawable"
            /\ dl' = [NoDrawLocals EXCEPT !.mtk_view = 1,
                                          !.command_queue = ivars.command_queue,
                                          !.pipeline_state = ivars.pipeline_state]
            /\ calls' = << >>
            /\ UNCHANGED panicMsg
    /\ UNCHANGED <<ivars, il, surface, win, backendVars, hist,
                   controlFlow, entered>>

\* the MTKView's display tick calls the delegate's drawInMTKView(view); the
\* tick is delivered by the main thread's run loop, so only while
\* event_loop.run is waiting
DrawEnter ==
    /\ pc = "loop"
    /\ controlFlow # "Exit"
    /\ surface.delegate
    /\ frameNo < MaxFrames
    /\ CallDraw

\* a variant whose draw refits the view to the content area on its way
AcquireDrawable_resizes ==
    /\ pc = "draw_drawable"
    /\ \E ok \in BOOLEAN :
        LET res == IF ok THEN frameNo ELSE 0
            log == Append(calls, Call("currentDrawable", dl.mtk_view, << >>, res))
        IN  IF res = 0 THEN Unavailable(log)
            ELSE Bound("current_drawable", res, log, "draw_command_buffer")
    /\ surface' = [surface EXCEPT !.frame = win.content]
    /\ UNCHANGED <<ivars, il, win, backendVars, frameNo, loopVars>>

\* step 1: mtk_view.currentDrawable()
AcquireDrawable ==
    /\ pc = "draw_drawable"
    /\ \E ok \in BOOLEAN :
        LET res == IF ok THEN frameNo ELSE 0
            log == Append(calls, Call("currentDrawable", dl.mtk_view, << >>, res))
        IN  IF res = 0 THEN Unavailable(log)
            ELSE Bound("current_drawable", res, log, "draw_command_buffer")
    /\ UNCHANGED staticVars

\* step 2: command_queue.commandBuffer()
AcquireCommandBuffer ==
    /\ pc = "draw_command_buffer"
    /\ \E ok \in BOOLEAN :
        LET res == IF ok THEN frameNo ELSE 0
            log == Append(calls, Call("commandBuffer", dl.command_queue, << >>, res))
        IN  IF res = 0 THEN Unavailable(log)
            ELSE Bound("command_buffer", res, log, "draw_pass_descriptor")
    /\ UNCHANGED staticVars

\* step 3: mtk_view.currentRenderPassDescriptor()
AcquireRenderPassDescriptor ==
    /\ pc = "draw_pass_descriptor"
    /\ \E ok \in BOOLEAN :
        LET res == IF ok THEN frameNo ELSE 0
            log == Append(calls,
                     Call("currentRenderPassDescriptor", dl.mtk_view, << >>, res))
        IN  IF res = 0 THEN Unavailable(log)
            ELSE Bound("pass_descriptor", res, log, "draw_encoder")
    /\ UNCHANGED staticVars

\* a variant that treats a missing encoder as a programming error
AcquireEncoder_expect ==
    /\ pc = "draw_encoder"
    /\ \E ok \in BOOLEAN :
        LET res == IF ok THEN frameNo ELSE 0
            log == Append(calls,
                     Call("renderCommandEncoderWithDescriptor", dl.command_buffer,
                          <<dl.pass_descriptor>>, res))
        IN  IF res = 0
            THEN /\ Panic("Failed to create an encoder.")
                 /\ calls' = log
                 /\ UNCHANGED <<dl, hist>>
            ELSE Bound("encoder", res, log, "draw_set_vertex_bytes")
    /\ UNCHANGED staticVars

\* step 4: command_buffer.renderCommandEncoderWithDescriptor(&pass_descriptor)
AcquireEncoder ==
    /\ pc = "draw_encoder"
    /\ \E ok \in BOOLEAN :
        LET res == IF ok THEN frameNo ELSE 0
            log == Append(calls,
                     Call("renderCommandEncoderWithDescriptor", dl.command_buffer,
                          <<dl.pass_descriptor>>, res))
        IN  IF res = 0 THEN Unavailable(log)
            ELSE Bound("encoder", res, log, "draw_set_vertex_bytes")
    /\ UNCHANGED staticVars

\* a variant whose vertex colors rotate with the frame number
EncodeVertexData_animated ==
    /\ pc = "draw_set_vertex_bytes"
    /\ Step(Call("setVertexBytes", dl.encoder,
                 << [i \in 1..3 |->
                       [vertex_input_data[i] EXCEPT
                          !.color = vertex_input_data[((i + frameNo) % 3) + 1].color]],
                    Len(vertex_input_data) * VertexInputSize, 1>>, 0),
            "draw_set_pipeline")
    /\ UNCHANGED staticVars

\* a variant that binds the pipeline before it writes the vertex bytes
EncodeVertexData_afterBind ==
    /\ pc = "draw_set_vertex_bytes"
    /\ pc' = "draw_primitives"
    /\ calls' = calls \o
         << Call("setRenderPipelineState", dl.encoder, <<dl.pipeline_state>>, 0),
            Call("setVertexBytes", dl.encoder,
                 <<vertex_input_data, Len(vertex_input_data) * VertexInputSize, 1>>, 0) >>
    /\ UNCHANGED <<dl, hist, panicMsg>>
    /\ UNCHANGED staticVars

\* step 5: encoder.setVertexBytes_length_atIndex(bytes, size_of_val(data), 1)
EncodeVertexData ==
    /\ pc = "draw_set_vertex_bytes"
    /\ Step(Call("setVertexBytes", dl.encoder,
                 <<vertex_input_data, Len(vertex_input_data) * VertexInputSize, 1>>, 0),
            "draw_set_pipeline")
    /\ UNCHANGED staticVars

\* a variant that builds a pipeline state for the frame and binds that one
BindPipeline_fresh ==
    /\ pc = "draw_set_pipeline"
    /\ pc' = "draw_primitives"
    /\ pipelines' = Append(pipelines, pipelines[dl.pipeline_state])
    /\ calls' = Append(calls,
         Call("setRenderPipelineState", dl.encoder, <<Len(pipelines) + 1>>, 0))
    /\ UNCHANGED <<dl, hist, panicMsg>>
    /\ UNCHANGED <<ivars, il, surface, win, inits, created, library, bootFailure,
                   frameNo, loopVars>>

\* step 6: encoder.setRenderPipelineState(pipeline_state)
BindPipeline ==
    /\ pc = "draw_set_pipeline"
    /\ Step(Call("setRenderPipelineState", dl.encoder, <<dl.pipeline_state>>, 0),
            "draw_primitives")
    /\ UNCHANGED staticVars

\* step 7: encoder.drawPrimitives_vertexStart_vertexCount(Triangle, 0, 3)
DrawPrimitives ==
    /\ pc = "draw_primitives"
    /\ Step(Call("drawPrimitives", dl.encoder, <<PrimitiveTriangle, 0, 3>>, 0),
            "draw_end_encoding")
    /\ UNCHANGED staticVars

\* a variant that goes on to present without closing the encoder
EndEncoding_missing ==
    /\ pc = "draw_end_encoding"
    /\ pc' = "draw_present"
    /\ UNCHANGED <<dl, calls, hist, panicMsg>>
    /\ UNCHANGED staticVars

\* step 8: encoder.endEncoding()
EndEncoding ==
    /\ pc = "draw_end_encoding"
    /\ Step(Call("endEncoding", dl.encoder, << >>, 0), "draw_present")
    /\ UNCHANGED staticVars

\* a variant that presents the drawable of the frame before
Present_stale ==
    /\ pc = "draw_present"
    /\ Step(Call("presentDrawable", dl.command_buffer, <<dl.current_drawable - 1>>, 0),
            "draw_commit")
    /\ UNCHANGED staticVars

\* step 9: command_buffer.presentDrawable(current_drawable)
Present ==
    /\ pc = "draw_present"
    /\ Step(Call("presentDrawable", dl.command_buffer, <<dl.current_drawable>>, 0),
            "draw_commit")
    /\ UNCHANGED staticVars

\* a variant that holds the submission back in the frame after a skipped one
Commit_unlessPreviousSkipped ==
    /\ pc = "draw_commit"
    /\ IF Len(hist) > 0 /\ ~hist[Len(hist)].acquired
       THEN DrawReturn(calls)
       ELSE DrawReturn(Append(calls, Call("commit", dl.command_buffer, << >>, 0)))
    /\ UNCHANGED staticVars

\* step 10: command_buffer.commit(), then the function ends
Commit ==
    /\ pc = "draw_commit"
    /\ DrawReturn(Append(calls, Call("commit", dl.command_buffer, << >>, 0)))
    /\ UNCHANGED staticVars

\* ------------------------------------------------- the event handler
\* a variant that sizes the view from the event
ResizedFrame_fromEvent(content, size) == Rect(0, 0, size.w, size.h)

\* the rectangle the Resized arm passes to mtk_view.setFrame: the content
\* view's frame; the event's size is not used
ResizedFrame(content, size) == content

\* every handler call starts with *control_flow = ControlFlow::Wait
HandleCloseRequested ==
    /\ pc = "loop"
    /\ controlFlow # "Exit"
    /\ controlFlow' = "Exit"
    /\ handled' = Event("CloseRequested", NoSize)
    /\ UNCHANGED <<pc, panicMsg, ivars, il, surface, win, backendVars,
                   frameVars, entered>>

\* a variant that rebuilds the pipeline state for the new size
HandleResized_recreate ==
    /\ pc = "loop"
    /\ controlFlow # "Exit"
    /\ controlFlow' = "Wait"
    /\ \E size \in EventSizes :
        /\ handled' = Event("Resized", size)
        /\ surface' = [surface EXCEPT !.frame = win.content]
    /\ pipelines' = Append(pipelines, pipelines[ivars.pipeline_state])
    /\ ivars' = [ivars EXCEPT !.pipeline_state = Len(pipelines) + 1]
    /\ UNCHANGED <<pc, panicMsg, il, win, inits, created, library, bootFailure,
                   frameVars, entered>>

\* the handler's WindowEvent::Resized(size) arm: unwrap the mtk_view and
\* window cells, then mtk_view.setFrame(ns_window.contentView().unwrap().frame())
ResizedArm ==
    /\ controlFlow' = "Wait"
    /\ \E size \in EventSizes :
        /\ handled' = Event("Resized", size)
        /\ IF ivars.mtk_view = 0 \/ ivars.window = 0
           THEN /\ Panic("called Option::unwrap() on a None value")
                /\ UNCHANGED surface
           ELSE /\ surface' = [surface EXCEPT
                                  !.frame = ResizedFrame(win.content, size)]
                /\ UNCHANGED <<pc, panicMsg>>
    /\ UNCHANGED <<ivars, il, win, backendVars, frameVars, entered>>

\* WindowEvent::Resized(size) delivered by the running loop
HandleResized ==
    /\ pc = "loop"
    /\ controlFlow # "Exit"
    /\ ResizedArm

\* a variant whose RedrawRequested arm calls the delegate's draw method
HandleRedrawRequested_draws ==
    /\ pc = "loop"
    /\ controlFlow # "Exit"
    /\ frameNo < MaxFrames
    /\ handled' = Event("RedrawRequested", NoSize)
    /\ controlFlow' = "Wait"
    /\ frameNo' = frameNo + 1
    /\ pc' = "draw_drawable"
    /\ dl' = [NoDrawLocals EXCEPT !.mtk_view = 1,
                                  !.command_queue = ivars.command_queue,
                                  !.pipeline_state = ivars.pipeline_state]
    /\ calls' = << >>
    /\ UNCHANGED <<panicMsg, ivars, il, surface, win, backendVars, hist, entered>>

\* Event::RedrawRequested(_): the arm is empty
HandleRedrawRequested ==
    /\ pc = "loop"
    /\ controlFlow # "Exit"
    /\ handled' = Event("RedrawRequested", NoSize)
    /\ controlFlow' = "Wait"
    /\ UNCHANGED <<pc, panicMsg, ivars, il, surface, win, backendVars,
                   frameVars, entered>>

\* a variant whose handler leaves the loop polling after any other event
HandleOther_poll ==
    /\ pc = "loop"
    /\ controlFlow # "Exit"
    /\ handled' = Event("Other", NoSize)
    /\ controlFlow' = "Poll"
    /\ UNCHANGED <<pc, panicMsg, ivars, il, surface, win, backendVars,
                   frameVars, entered>>

\* any other event: the `_ => ()` arms
HandleOther ==
    /\ pc = "loop"
    /\ controlFlow # "Exit"
    /\ handled' = Event("Other", NoSize)
    /\ controlFlow' = "Wait"
    /\ UNCHANGED <<pc, panicMsg, ivars, il, surface, win, backendVars,
                   frameVars, entered>>

\* the loop ends once a handler has left ControlFlow::Exit
LoopExit ==
    /\ pc = "loop"
    /\ controlFlow = "Exit"
    /\ pc' = "exit"
    /\ handled' = NoEvent
    /\ UNCHANGED <<panicMsg, ivars, il, surface, win, backendVars,
                   frameVars, controlFlow, entered>>

\* the user resizes the window while the loop waits: the window frame and
\* the content view's frame change, the MTKView's frame does not
WindowChanges ==
    /\ pc = "loop"
    /\ controlFlow # "Exit"
    /\ \E w \in Extents, h \in Extents :
        /\ Rect(0, 0, w, h) # win.content
        /\ win' = [win EXCEPT !.frame.w = w, !.frame.h = h + 1,
                               !.content = Rect(0, 0, w, h)]
    /\ handled' = NoEvent
    /\ UNCHANGED <<pc, panicMsg, ivars, il, surface, backendVars,
                   frameVars, controlFlow, entered>>

Next ==
    \/ InitDevice
    \/ InitQueue
    \/ InitView
    \/ InitLibrary
    \/ InitPipeline
    \/ InitDelegate
    \/ InitWindow
    \/ InitStore
    \/ EnterLoop
    \/ DrawEnter
    \/ AcquireDrawable
    \/ AcquireCommandBuffer
    \/ AcquireRenderPassDescriptor
    \/ AcquireEncoder
    \/ EncodeVertexData
    \/ BindPipeline
    \/ DrawPrimitives
    \/ EndEncoding
    \/ Present
    \/ Commit
    \/ HandleCloseRequested
    \/ HandleResized
    \/ HandleRedrawRequested
    \/ HandleOther
    \/ LoopExit
    \/ WindowChanges

Spec == Init /\ [][Next]_vars

\* ------------------------------------------- callers other than main
\* init() is invoked again on the delegate after it has returned
InitAgain ==
    /\ pc = "run"
    /\ inits < MaxInits
    /\ pc' = "init_device"
    /\ UNCHANGED <<panicMsg, ivars, il, dl, surface, win, backendVars,
                   frameVars, loopVars>>

\* the main thread is before or inside the first init()
BeforeStore == pc \in {"init_device", "init_window", "init_store"}

\* drawInMTKView is invoked while a cell it reads is still empty
EarlyDraw ==
    /\ BeforeStore
    /\ ivars.command_queue = 0 \/ ivars.pipeline_state = 0
    /\ CallDraw

\* the Resized arm runs while the mtk_view cell is still empty
EarlyResized ==
    /\ BeforeStore
    /\ ivars.mtk_view = 0
    /\ ResizedArm

NextLifecycle ==
    \/ Next
    \/ InitAgain
    \/ EarlyDraw
    \/ EarlyResized

\* the delegate driven by any caller: main's sequence, a second init(), and
\* callbacks that arrive before the cells are stored
SpecLifecycle == Init /\ [][NextLifecycle]_vars

\* =================================================================
\* Properties
\* =================================================================
\* the ten steps of a frame, in the order the design states them
StepOrder ==
    << "currentDrawable", "commandBuffer", "currentRenderPassDescriptor",
       "renderCommandEncoderWithDescriptor", "setVertexBytes",
       "setRenderPipelineState", "drawPrimitives", "endEncoding",
       "presentDrawable", "commit" >>

StepNo(op) == CHOOSE k \in 1..Len(StepOrder) : StepOrder[k] = op

\* every invoked frame has returned: calls is the log of the last frame
FrameOver == frameNo > 0 /\ Len(hist) = frameNo

\* index of the op's first call in the log, 0 if it was not called
FirstCall(log, op) ==
    IF \E i \in 1..Len(log) : log[i].op = op
    THEN CHOOSE i \in 1..Len(log) :
            log[i].op = op /\ \A j \in 1..(i - 1) : log[j].op # op
    ELSE 0

\* the acquisition calls of the log that returned None
FailedCalls(log) == {i \in 1..Len(log) : log[i].op \in AcquireOps /\ log[i].res = 0}

\* C1: a frame commits at most once; a commit is preceded, in that frame, by
\* four successful acquisitions and by steps 5-9; a returned frame whose four
\* acquisitions succeeded has committed, and one with a failed acquisition
\* has not.
AllOrNothingFrame ==
    /\ CountOp(calls, "commit") <= 1
    /\ \A i \in 1..Len(calls) :
          calls[i].op = "commit" =>
            /\ Acquired(SubSeq(calls, 1, i - 1))
            /\ \A k \in 5..9 :
                  /\ FirstCall(calls, StepOrder[k]) > 0
                  /\ FirstCall(calls, StepOrder[k]) < i
    /\ FrameOver => (CountOp(calls, "commit") = 1 <=> Acquired(calls))

\* a second frame has committed after a first one did
AllOrNothingWitness ==
    /\ FrameOver
    /\ frameNo >= 2
    /\ hist[1].commits = 1
    /\ Len(calls) = 10
    /\ calls[10].op = "commit"

\* C2: at every point of a frame the calls made so far are the first steps
\* of the ten, in order, none missing or repeated; every acquisition but the
\* last call returned Some; a returned frame ended at a failed acquisition
\* or made all ten calls.
StrictStepOrder ==
    /\ Len(calls) <= Len(StepOrder)
    /\ \A i \in 1..Len(calls) : calls[i].op = StepOrder[i]
    /\ \A i \in 1..(Len(calls) - 1) : calls[i].op \in AcquireOps => calls[i].res # 0
    /\ FrameOver => Len(calls) = Len(StepOrder) \/ FailedCalls(calls) = {Len(calls)}

\* a frame is about to commit: nine calls made, in order
StrictStepOrderWitness ==
    /\ pc = "draw_commit"
    /\ Len(calls) = 9
    /\ calls[5].op = "setVertexBytes"
    /\ calls[9].op = "presentDrawable"

\* C3: once acquisition step k has returned None, the frame has returned;
\* steps 1..k were each called exactly once and none of steps k+1..10 was.
NoRetryNoContinuation ==
    FailedCalls(calls) # {} =>
        LET first == CHOOSE i \in FailedCalls(calls) :
                        \A j \in FailedCalls(calls) : i <= j
            k == StepNo(calls[first].op)
        IN  /\ FrameOver
            /\ pc \in {"loop", "exit"}
            /\ Len(calls) = k
            /\ \A j \in 1..k : CountOp(calls, StepOrder[j]) = 1
            /\ \A j \in (k + 1)..Len(StepOrder) : CountOp(calls, StepOrder[j]) = 0

\* the pass descriptor was unavailable after a command buffer was acquired
NoRetryWitness ==
    /\ FrameOver
    /\ Len(calls) = 3
    /\ calls[2].op = "commandBuffer"
    /\ calls[2].res # 0
    /\ calls[3].op = "currentRenderPassDescriptor"
    /\ calls[3].res = 0

\* C4: every returned frame, whatever the frames before it did, committed
\* exactly once if its own four acquisitions succeeded and not at all
\* otherwise.
FrameIndependence ==
    \A n \in 1..Len(hist) : hist[n].commits = IF hist[n].acquired THEN 1 ELSE 0

\* a skipped frame was followed by a frame that committed once
FrameIndependenceWitness ==
    \E n \in 1..(Len(hist) - 1) :
        /\ ~hist[n].acquired
        /\ hist[n].commits = 0
        /\ hist[n + 1].acquired
        /\ hist[n + 1].commits = 1

\* commit calls of the whole run: those of the returned frames and those of
\* the frame in progress
RECURSIVE SumCommits(_)
SumCommits(h) == IF h = << >> THEN 0 ELSE h[1].commits + SumCommits(Tail(h))

TotalCommits ==
    SumCommits(hist) + (IF Len(hist) < frameNo THEN CountOp(calls, "commit") ELSE 0)

\* at most one pipeline state exists, a set pipeline_state cell holds it, and
\* every setRenderPipelineState of the frame passed the stored one
PipelineSingletonState ==
    /\ Len(pipelines) <= 1
    /\ ivars.pipeline_state # 0 => Len(pipelines) = 1 /\ ivars.pipeline_state = 1
    /\ \A i \in 1..Len(calls) :
          calls[i].op = "setRenderPipelineState" =>
             /\ ivars.pipeline_state # 0
             /\ calls[i].args = <<ivars.pipeline_state>>

\* C5: at most one pipeline state is ever created; a set pipeline_state cell
\* holds that one and is never changed again; every setRenderPipelineState of
\* a frame passes the stored one.
PipelineSingleton ==
    /\ []PipelineSingletonState
    /\ [][ivars.pipeline_state # 0 =>
             /\ ivars'.pipeline_state = ivars.pipeline_state
             /\ pipelines' = pipelines]_vars

\* the second frame has bound the pipeline after a resize changed the view
PipelineSingletonWitness ==
    /\ frameNo >= 2
    /\ pc = "draw_primitives"
    /\ calls[6].op = "setRenderPipelineState"
    /\ calls[6].args = <<1>>
    /\ surface.frame = win.content
    /\ hist[1].commits = 1

\* C6: a library without vertex_main or without fragment_main makes init
\* fail before a pipeline state exists: no pipeline state, no stored field,
\* no frame, no commit.
MissingEntryPointIsFatal ==
    (library.compiled /\ (~library.vertex_main \/ ~library.fragment_main)) =>
        /\ Len(pipelines) = 0
        /\ ivars.pipeline_state = 0
        /\ ~entered
        /\ frameNo = 0
        /\ TotalCommits = 0

\* C7: when the device, the queue, the library or the pipeline state cannot
\* be had, init has panicked at that call: nothing later in init was done,
\* no cell but window is set, the loop was not entered, no frame and no
\* commit happened.
BootstrapFailureIsFatal ==
    bootFailure # "" =>
        /\ pc = "panicked"
        /\ panicMsg \in {"Failed to get default system device.",
                         "Failed to create a command queue.",
                         "Failed to create a library.",
                         "Failed to create a pipeline state."}
        /\ bootFailure = "device" => created.queue = 0
        /\ bootFailure \in {"device", "queue"} => created.view = 0 /\ ~surface.created
        /\ bootFailure \in {"device", "queue", "library"} => ~library.compiled
        /\ Len(pipelines) = 0
        /\ ~surface.delegate
        /\ ~surface.attached
        /\ ivars.command_queue = 0
        /\ ivars.pipeline_state = 0
        /\ ivars.mtk_view = 0
        /\ ~entered
        /\ frameNo = 0
        /\ TotalCommits = 0

\* pipeline-state creation failed after device, queue, view and library
BootstrapFailureWitness ==
    /\ bootFailure = "pipeline"
    /\ pc = "panicked"
    /\ created.queue = 1
    /\ library.compiled

\* C8: after bootstrap no panic happens; a frame is in progress or has
\* returned to the loop, and a returned frame either made all ten calls and
\* committed or stopped at a failed acquisition without any encoder, present
\* or commit call.
TransientNeverEscalates ==
    entered =>
        /\ pc # "panicked"
        /\ panicMsg = ""
        /\ FrameOver =>
            /\ pc \in {"loop", "exit"}
            /\ \/ /\ Len(calls) = 10
                  /\ CountOp(calls, "commit") = 1
               \/ /\ Len(calls) \in 1..4
                  /\ calls[Len(calls)].res = 0
                  /\ CountOp(calls, "commit") = 0
        /\ (FrameOver /\ controlFlow # "Exit") => ENABLED HandleOther

\* a frame whose encoder was unavailable has returned to the waiting loop
TransientWitness ==
    /\ FrameOver
    /\ pc = "loop"
    /\ Len(calls) = 4
    /\ calls[4].op = "renderCommandEncoderWithDescriptor"
    /\ calls[4].res = 0
    /\ calls[3].res # 0

\* C9: in the state a Resized handler leaves, the view's frame is the
\* content view's frame, origin and size, whatever size the event carried.
ResizeExactness ==
    handled.event = "Resized" =>
        /\ pc = "loop"
        /\ surface.frame = win.content

\* a Resized event carrying another size than the content view's was
\* handled after a frame
ResizeExactnessWitness ==
    /\ handled.event = "Resized"
    /\ handled.size # [w |-> win.content.w, h |-> win.content.h]
    /\ surface.frame = win.content
    /\ frameNo >= 1

\* C10: a step that handles a Resized event changes nothing but the view's
\* frame (and the loop's control flow): no object is created, the four
\* cells keep their values, no call is added to the frame log.
ResizeRecreatesNothing ==
    [][handled'.event = "Resized" =>
         /\ created' = created
         /\ library' = library
         /\ pipelines' = pipelines
         /\ ivars' = ivars
         /\ calls' = calls
         /\ hist' = hist
         /\ frameNo' = frameNo
         /\ win' = win
         /\ [surface' EXCEPT !.frame = ZeroRect] = [surface EXCEPT !.frame = ZeroRect]]_vars

\* a Resized event changed the view's frame after a committed frame
ResizeRecreatesNothingWitness ==
    /\ handled.event = "Resized"
    /\ FrameOver
    /\ Len(calls) = 10
    /\ ivars.pipeline_state = 1
    /\ Len(pipelines) = 1
    /\ surface.frame = win.content
    /\ win.content # Rect(0, 0, 1, 1)

\* C11: init is invoked once and creates one device, queue, view, library
\* and pipeline state; whenever a draw callback or a Resized handler has
\* run, the loop had been entered and command_queue, pipeline_state and
\* mtk_view were stored, so no callback panicked on an empty cell; while the
\* delegate is registered and the cells are still empty no frame has begun.
BootstrapPrecedesCallbacks ==
    /\ inits <= 1
    /\ created.device <= 1 /\ created.queue <= 1 /\ created.view <= 1
    /\ created.library <= 1 /\ Len(pipelines) <= 1
    /\ (frameNo > 0 \/ handled.event # "None") =>
          /\ entered
          /\ inits = 1
          /\ ivars.command_queue # 0
          /\ ivars.pipeline_state # 0
          /\ ivars.mtk_view # 0
          /\ pc # "panicked"
    /\ (surface.delegate /\ ivars.command_queue = 0) => frameNo = 0 /\ calls = << >>
    /\ panicMsg # "called Option::unwrap() on a None value"

\* a frame and then a Resized event were handled with all cells stored
BootstrapPrecedesWitness ==
    /\ frameNo >= 1
    /\ handled.event = "Resized"
    /\ ivars.mtk_view = 1
    /\ ivars.command_queue = 1
    /\ surface.delegate

\* C12: every setVertexBytes of a frame passes the same three vertices,
\* colored (1,0,0), (0,1,0), (0,0,1) in that order, with the length of three
\* vertex records, at index 1; every drawPrimitives passes Triangle, 0, 3.
FixedGeometry ==
    \A i \in 1..Len(calls) :
        /\ calls[i].op = "setVertexBytes" =>
              /\ Len(calls[i].args[1]) = 3
              /\ calls[i].args[1][1].color = <<1, 0, 0>>
              /\ calls[i].args[1][2].color = <<0, 1, 0>>
              /\ calls[i].args[1][3].color = <<0, 0, 1>>
              /\ calls[i].args[2] = 3 * VertexInputSize
              /\ calls[i].args[3] = 1
        /\ calls[i].op = "drawPrimitives" => calls[i].args = <<PrimitiveTriangle, 0, 3>>

\* a later frame, drawn after the view was resized, has issued its draw call
FixedGeometryWitness ==
    /\ frameNo >= 2
    /\ pc = "draw_end_encoding"
    /\ calls[5].op = "setVertexBytes"
    /\ calls[7].op = "drawPrimitives"
    /\ surface.frame = win.content

\* C13 as stated: handling a RedrawRequested event invokes drawInMTKView once.
RedrawRequestedDraws ==
    [][handled'.event = "RedrawRequested" => frameNo' = frameNo + 1]_vars

\* C13 amended: drawInMTKView is invoked only by a display tick taken while
\* the loop waits, once per tick, and has returned whenever the loop waits
\* again; handling a RedrawRequested event invokes no draw and makes no
\* backend call.
RedrawDispatch ==
    /\ [](pc \in {"loop", "exit"} => Len(hist) = frameNo)
    /\ [][/\ frameNo' \in {frameNo, frameNo + 1}
          /\ frameNo' = frameNo + 1 => pc = "loop" /\ handled'.event = "None"
          /\ handled'.event = "RedrawRequested" =>
                /\ frameNo' = frameNo
                /\ calls' = calls
                /\ hist' = hist
                /\ pc' = pc]_vars

\* a RedrawRequested event was handled after a frame the display tick drew
RedrawDispatchWitness ==
    /\ handled.event = "RedrawRequested"
    /\ frameNo >= 1
    /\ FrameOver
    /\ pc = "loop"

\* C14: once a handler has returned, the control flow is Exit exactly when
\* the event was CloseRequested and Wait for every other event; the loop
\* never goes back to Poll; the step that handles CloseRequested starts no
\* frame, makes no backend call, and changes neither the surface nor the
\* window nor any stored resource.
ControlFlowContract ==
    /\ [](handled.event # "None" =>
            /\ controlFlow = "Exit" <=> handled.event = "CloseRequested"
            /\ handled.event # "CloseRequested" => controlFlow = "Wait")
    /\ [][/\ controlFlow' = "Poll" => controlFlow = "Poll"
          /\ (controlFlow' = "Exit" /\ controlFlow # "Exit") =>
                /\ handled'.event = "CloseRequested"
                /\ UNCHANGED <<pc, ivars, surface, win, backendVars, frameVars>>]_vars

\* CloseRequested was handled after a frame, and the loop has not yet left
ControlFlowWitness ==
    /\ handled.event = "CloseRequested"
    /\ controlFlow = "Exit"
    /\ frameNo >= 1
    /\ pc = "loop"

\* C15: the descriptor's color-attachment format equals the format read
\* from the surface, every pipeline state created from it carries that
\* format, and so at every commit the stored pipeline's format equals the
\* surface's format.
PixelFormatAgreement ==
    /\ surface.pixelFormat \in PixelFormats \cup {0}
    /\ il.descriptor.pixelFormat # 0 => il.descriptor.pixelFormat = surface.pixelFormat
    /\ \A i \in 1..Len(pipelines) : pipelines[i].pixelFormat = surface.pixelFormat
    /\ CountOp(calls, "commit") > 0 =>
          /\ ivars.pipeline_state \in 1..Len(pipelines)
          /\ pipelines[ivars.pipeline_state].pixelFormat = surface.pixelFormat
          /\ surface.pixelFormat \in PixelFormats

\* a second frame commits, after a resize, on a surface of format 70
PixelFormatWitness ==
    /\ frameNo >= 2
    /\ CountOp(calls, "commit") = 1
    /\ surface.pixelFormat = 70
    /\ pipelines[1].pixelFormat = 70
    /\ surface.frame # [x |-> 0, y |-> 0, w |-> 1, h |-> 1]

\* C16: before init only window is set; init returning normally leaves all
\* four cells set; a second init never returns normally, it ends in a panic
\* and the cells still hold what the first init stored; a draw or a Resized
\* arm that finds an empty cell ends in a panic, the draw without a single
\* backend call, the resize without touching the surface's cell.
TwoPhaseLifecycle ==
    /\ inits = 0 => ivars = [EmptyIvars EXCEPT !.window = 1]
    /\ ivars.window = 1
    /\ pc = "run" =>
          ivars.command_queue # 0 /\ ivars.pipeline_state # 0 /\ ivars.mtk_view # 0
    /\ inits >= 2 =>
          /\ ivars.command_queue = 1
          /\ ivars.pipeline_state = 1
          /\ ivars.mtk_view = 1
          /\ pc \notin {"run", "loop", "exit"}
          /\ frameNo = 0
          /\ pc = "init_store" => il.command_queue = 2
          /\ pc = "panicked" =>
                panicMsg # "called Option::unwrap() on a None value"
    /\ (frameNo > 0 /\ (ivars.command_queue = 0 \/ ivars.pipeline_state = 0)) =>
          /\ pc = "panicked"
          /\ panicMsg = "called Option::unwrap() on a None value"
          /\ calls = << >>
          /\ hist = << >>
    /\ (handled.event = "Resized" /\ ivars.mtk_view = 0) =>
          /\ pc = "panicked"
          /\ panicMsg = "called Option::unwrap() on a None value"

\* a second init went through bootstrap again and panicked at the first set
SecondInitWitness ==
    /\ inits = 2
    /\ pc = "panicked"
    /\ panicMsg = "Failed to set command queue."
    /\ ivars.command_queue = 1
    /\ ivars.pipeline_state = 1
    /\ ivars.mtk_view = 1
    /\ created.queue = 2

\* C17 as stated: from its construction on, through bootstrap, the surface's
\* frame equals the content view's frame.
SurfaceBuiltWithContentFrame ==
    (surface.created /\ ~entered) => surface.frame = win.content

\* C17 amended: the surface is constructed with the window's frame and keeps
\* it until it is attached; attaching sets its frame to the content view's
\* frame, so at the end of bootstrap the two are equal, and they stay equal
\* over every step that leaves the content area as it was, the first draw
\* included.
SurfaceSizing ==
    /\ []((surface.created /\ ~surface.attached) => surface.frame = win.frame)
    /\ [](pc \in {"init_store", "run"} =>
             surface.attached /\ surface.frame = win.content)
    /\ [][(surface.attached /\ surface.frame = win.content
              /\ win'.content = win.content) =>
             surface'.frame = win'.content]_vars

\* the first draw begins on a surface that fills the content area
SurfaceSizingWitness ==
    /\ frameNo = 1
    /\ pc = "draw_drawable"
    /\ surface.attached
    /\ surface.frame = win.content
    /\ surface.frame # win.frame

\* C18: a frame that commits has called presentDrawable exactly once, before
\* the commit, on the command buffer its own step 2 returned and with the
\* drawable its own step 1 returned, and commits that same command buffer;
\* every presented drawable and committed buffer is the current frame's.
PresentMatchesFrame ==
    /\ \A i \in 1..Len(calls) :
          calls[i].op = "commit" =>
              /\ CountOp(calls, "presentDrawable") = 1
              /\ CountOp(calls, "commit") = 1
              /\ calls[1].op = "currentDrawable"
              /\ calls[2].op = "commandBuffer"
              /\ \E j \in 1..(i - 1) :
                    /\ calls[j].op = "presentDrawable"
                    /\ calls[j].recv = calls[2].res
                    /\ calls[j].args = <<calls[1].res>>
                    /\ calls[i].recv = calls[2].res
    /\ \A i \in 1..Len(calls) :
          /\ calls[i].op = "presentDrawable" =>
                calls[i].args = <<frameNo>> /\ calls[i].recv = frameNo
          /\ calls[i].op = "commit" => calls[i].recv = frameNo

\* the second frame presented and committed its own drawable and buffer
PresentMatchesWitness ==
    /\ frameNo >= 2
    /\ FrameOver
    /\ Len(calls) = 10
    /\ calls[9].op = "presentDrawable"
    /\ calls[9].args = <<frameNo>>
    /\ calls[10].recv = calls[2].res

\* the encoding calls, made on the render command encoder
EncodingOps == {"setVertexBytes", "setRenderPipelineState", "drawPrimitives"}

\* C19: endEncoding is called at most once per frame, on the encoder step 4
\* returned, after setVertexBytes, setRenderPipelineState and drawPrimitives
\* on that encoder; no encoder call follows it; a draw that obtained an
\* encoder has called endEncoding by the time it returns.
EncoderAlwaysClosed ==
    /\ CountOp(calls, "endEncoding") <= 1
    /\ \A i \in 1..Len(calls) :
          calls[i].op = "endEncoding" =>
              /\ i = 8
              /\ calls[4].op = "renderCommandEncoderWithDescriptor"
              /\ calls[4].res # 0
              /\ calls[i].recv = calls[4].res
              /\ \A k \in 5..7 : calls[k].op \in EncodingOps
                                 /\ calls[k].recv = calls[4].res
              /\ {calls[k].op : k \in 5..7} = EncodingOps
              /\ \A j \in (i + 1)..Len(calls) :
                    calls[j].op \notin EncodingOps \cup {"endEncoding"}
    /\ \A i \in 1..Len(calls) :
          calls[i].op \in EncodingOps => CountOp(SubSeq(calls, 1, i), "endEncoding") = 0
    /\ (pc \in {"loop", "exit"} /\ Len(calls) >= 4 /\ calls[4].res # 0) =>
          CountOp(calls, "endEncoding") = 1

\* a second draw obtained an encoder, closed it and returned
EncoderClosedWitness ==
    /\ frameNo >= 2
    /\ FrameOver
    /\ Len(calls) = 10
    /\ calls[4].res = frameNo
    /\ calls[8].op = "endEncoding"
    /\ calls[8].recv = calls[4].res

\* the positions of the main thread inside drawInMTKView
DrawPositions ==
    {"draw_drawable", "draw_command_buffer", "draw_pass_descriptor", "draw_encoder",
     "draw_set_vertex_bytes", "draw_set_pipeline", "draw_primitives",
     "draw_end_encoding", "draw_present", "draw_commit"}

\* C20: every step of a draw invocation, from its entry to its return,
\* committed or skipped, leaves the four stored references, the surface, the
\* window and the queue, library and pipeline states unchanged; the
\* surface's frame changes only in bootstrap and in the Resized arm.
DrawIsReadOnly ==
    [][/\ (pc \in DrawPositions \/ pc' \in DrawPositions) =>
              UNCHANGED <<ivars, surface, win, backendVars>>
       /\ surface'.frame # surface.frame =>
              \/ pc \in {"init_view", "init_window"}
              \/ pc = "loop" /\ handled'.event = "Resized"]_vars

\* a skipped and then a committed draw, after a resize, with all four
\* references as init stored them
DrawIsReadOnlyWitness ==
    /\ frameNo >= 2
    /\ FrameOver
    /\ hist[1].commits = 0
    /\ hist[2].commits = 1
    /\ ivars = [command_queue |-> 1, pipeline_state |-> 1, window |-> 1, mtk_view |-> 1]
    /\ surface.frame = win.content
====
